---- MODULE Spec2Model ----
(***************************************************************************)
(* bower-npm-resolver: the npm wrapper (src/npm-utils.js: proxy, releases, *)
(* tarball) and the downloader (src/download.js: fetch).                   *)
(*                                                                         *)
(* JavaScript values are tagged records, promises are records with a       *)
(* state and a value, and every callback of the program is one action.     *)
(***************************************************************************)
EXTENDS Integers, Sequences, FiniteSets, TLC

VARIABLES kind, viewArgs, deferred, promise, loadCalls, viewLog,
          pendingLoad, pendingView, loadReply, viewReply,
          fpc, furl, fdst, fpath, files

qvars == <<kind, viewArgs, deferred, promise, loadCalls, viewLog,
           pendingLoad, pendingView, loadReply, viewReply>>
fvars == <<fpc, furl, fdst, fpath, files>>
vars == <<kind, viewArgs, deferred, promise, loadCalls, viewLog,
          pendingLoad, pendingView, loadReply, viewReply,
          fpc, furl, fdst, fpath, files>>

(***************************************************************************)
(* Bounds                                                                  *)
(***************************************************************************)
\* number of calls of proxy/releases/tarball that may be in flight at once
NumCalls == 2
\* longest version array the view command replies with
MaxLen == 2
\* most version keys in a per-version-keyed reply
MaxKeys == 2
\* number of fetch calls that may be in flight at once
NumFetches == 2

Calls == 1..NumCalls
Fetches == 1..NumFetches

(***************************************************************************)
(* JavaScript values                                                       *)
(***************************************************************************)
Undef == [t |-> "undefined"]
Null == [t |-> "null"]
Str(s) == [t |-> "string", v |-> s]
Arr(q) == [t |-> "array", v |-> q]
Obj(f) == [t |-> "object", v |-> f]
Error(e) == [t |-> "error", v |-> e]
Npm(cfg) == [t |-> "npm", config |-> cfg]

NoProps == [k \in {} |-> Undef]

\* the truthiness the `if (x)` tests of the code apply
Truthy(x) ==
  CASE x.t = "undefined" -> FALSE
    [] x.t = "null" -> FALSE
    [] x.t = "string" -> x.v # ""
    [] OTHER -> TRUE

IsArray(x) == x.t = "array"

\* the property name a value used as an index converts to
PropKey(k) == IF k.t = "string" THEN k.v ELSE "undefined"

Return(x) == [k |-> "return", v |-> x]
Throw(e) == [k |-> "throw", v |-> Error(e)]

\* the names of the indices of an array
IndexNames == <<"0", "1", "2", "3">>

\* the own enumerable property names of a value (none on a primitive here)
Keys(o) ==
  CASE o.t = "object" -> DOMAIN o.v
    [] o.t = "array" -> {IndexNames[i] : i \in DOMAIN o.v}
    [] OTHER -> {}

\* o[k]: own property of an object or element of an array, undefined on a
\* value without that property, a TypeError on undefined/null
Get(o, k) ==
  CASE o.t \in {"undefined", "null"} -> Throw("TypeError")
    [] o.t = "object" ->
         IF PropKey(k) \in DOMAIN o.v THEN Return(o.v[PropKey(k)]) ELSE Return(Undef)
    [] o.t = "array" ->
         IF \E i \in DOMAIN o.v : IndexNames[i] = PropKey(k)
         THEN Return(Str(o.v[CHOOSE i \in DOMAIN o.v : IndexNames[i] = PropKey(k)]))
         ELSE Return(Undef)
    [] OTHER -> Return(Undef)

(***************************************************************************)
(* String order of Array.prototype.sort without a comparator: strings are  *)
(* compared by their UTF-16 code units.                                    *)
(***************************************************************************)
CodeUnits ==
     ("1.0.0" :> <<49, 46, 48, 46, 48>>)
  @@ ("1.1.0" :> <<49, 46, 49, 46, 48>>)
  @@ ("1.7.7" :> <<49, 46, 55, 46, 55>>)
  @@ ("2.0.0" :> <<50, 46, 48, 46, 48>>)
  @@ ("10.0.0" :> <<49, 48, 46, 48, 46, 48>>)
  @@ ("dist.tarball" :> <<100, 105, 115, 116, 46, 116, 97, 114, 98, 97, 108, 108>>)
  @@ ("versions" :> <<118, 101, 114, 115, 105, 111, 110, 115>>)
  @@ ("proxy" :> <<112, 114, 111, 120, 121>>)
  @@ ("https-proxy" :> <<104, 116, 116, 112, 115, 45, 112, 114, 111, 120, 121>>)
  @@ ("0" :> <<48>>) @@ ("1" :> <<49>>) @@ ("2" :> <<50>>) @@ ("3" :> <<51>>)

RECURSIVE UnitsLess(_, _)
UnitsLess(a, b) ==
  IF b = <<>> THEN FALSE
  ELSE IF a = <<>> THEN TRUE
  ELSE IF Head(a) # Head(b) THEN Head(a) < Head(b)
  ELSE UnitsLess(Tail(a), Tail(b))

StrLess(a, b) == UnitsLess(CodeUnits[a], CodeUnits[b])

\* the elements of a set as an array, in some enumeration order
RECURSIVE Enumerate(_)
Enumerate(S) ==
  IF S = {} THEN <<>>
  ELSE LET k == CHOOSE k \in S : TRUE IN <<k>> \o Enumerate(S \ {k})

\* Object.keys(o): the own keys as an array, in some enumeration order
ObjectKeys(o) == Enumerate(Keys(o))

\* insertion of one string into a sorted array
RECURSIVE Insert(_, _)
Insert(q, s) ==
  IF q = <<>> THEN <<s>>
  ELSE IF StrLess(s, Head(q)) THEN <<s>> \o q
  ELSE <<Head(q)>> \o Insert(Tail(q), s)

\* keys.sort(): insertion sort (the sorted tail is evaluated once, as the
\* single element of a set)
RECURSIVE Sort(_)
Sort(q) ==
  IF q = <<>> THEN <<>>
  ELSE CHOOSE r \in {Insert(rest, Head(q)) : rest \in {Sort(Tail(q))}} : TRUE

getFirstKey(o) ==
  CHOOSE first \in {IF keys = <<>> THEN Undef ELSE Str(keys[1]) :
                      keys \in {Sort(ObjectKeys(o))}} : TRUE

\* getLastKey: keys[keys.length - 1] after the sort; undefined when empty
getLastKey(o) ==
  CHOOSE last \in {IF keys = <<>> THEN Undef ELSE Str(keys[Len(keys)]) :
                     keys \in {Sort(ObjectKeys(o))}} : TRUE

(***************************************************************************)
(* Promises (Q): a deferred is settled by the first resolve/reject only.   *)
(***************************************************************************)
Pending == [state |-> "pending", value |-> Undef]
Fulfilled(x) == [state |-> "fulfilled", value |-> x]
Rejected(e) == [state |-> "rejected", value |-> e]

\* deferred.resolve(x) / deferred.reject(e) on deferred d
Settle(d, outcome) == IF d.state = "pending" THEN outcome ELSE d

\* promise.then(f): the promise derived from outcome p of the source
\* promise, r being what the fulfilment handler f does on p's value; a
\* rejection passes through, a throw of the handler rejects
Then(p, r) ==
  IF p.state = "rejected" THEN p
  ELSE IF r.k = "throw" THEN Rejected(r.v) ELSE Fulfilled(r.v)

(***************************************************************************)
(* The functions of npm-utils.js                                           *)
(***************************************************************************)
wrapCallbackSwallow(err, data) == Fulfilled(data)

\* wrapCallback(deferred)(err, data): the settlement it asks for
wrapCallback(err, data) ==
  IF Truthy(err) THEN Rejected(err) ELSE Fulfilled(data)

InvokesViewAlways(err) == TRUE

\* execViewCommand's load callback: view is issued in the else branch only
InvokesView(err) == ~Truthy(err)

SharedDeferred(c) == 1

\* the deferred a call's callbacks close over: the one created by the call
DeferredOf(c) == c

configGet(cfg, k) == IF k \in DOMAIN cfg THEN cfg[k] ELSE Undef

proxyValueSame(data) ==
  Obj(("proxy" :> configGet(data.config, "proxy"))
      @@ ("https-proxy" :> configGet(data.config, "proxy")))

\* the object proxy() resolves with
proxyValue(data) ==
  Obj(("proxy" :> configGet(data.config, "proxy"))
      @@ ("https-proxy" :> configGet(data.config, "https-proxy")))

releasesThenSorted(data) ==
  IF IsArray(data) THEN Return(Arr(Sort(data.v)))
  ELSE IF data.t \in {"undefined", "null"} THEN Throw("TypeError")
  ELSE LET mostRecentVersion == getLastKey(data)
           entry == Get(data, mostRecentVersion)
       IN Get(entry.v, Str("versions"))

\* the fulfilment handler of releases
releasesThen(data) ==
  IF IsArray(data) THEN Return(data)
  ELSE IF data.t \in {"undefined", "null"} THEN Throw("TypeError")
  ELSE LET mostRecentVersion == getLastKey(data)
           entry == Get(data, mostRecentVersion)
       IN Get(entry.v, Str("versions"))

tarballThenEntry(data) ==
  LET direct == Get(data, Str("dist.tarball"))
  IN IF direct.k = "throw" \/ Truthy(direct.v) THEN direct
     ELSE LET mostRecentVersion == getLastKey(data)
          IN Get(data, mostRecentVersion)

\* the fulfilment handler of tarball
tarballThen(data) ==
  LET direct == Get(data, Str("dist.tarball"))
  IN IF direct.k = "throw" \/ Truthy(direct.v) THEN direct
     ELSE LET mostRecentVersion == getLastKey(data)
              entry == Get(data, mostRecentVersion)
          IN Get(entry.v, Str("dist.tarball"))

(***************************************************************************)
(* What the collaborator (npm) may call back with                          *)
(***************************************************************************)
Packages == {"bower"}
PackageVersions == {"1.7.7"}

LoadErrors == {Error("ELOAD")}
ViewErrors == {Error("E404")}

ArrayVersions == {"1.0.0", "1.1.0"}
KeyVersions == {"1.7.7", "2.0.0", "10.0.0"}

SeqsUpTo(S, n) == UNION {[1..m -> S] : m \in 0..n}

VersionsOf ==
     ("1.7.7" :> <<"1.0.0", "1.7.7">>)
  @@ ("2.0.0" :> <<"1.0.0", "2.0.0">>)
  @@ ("10.0.0" :> <<"1.0.0", "10.0.0">>)

TarballOf ==
     ("1.7.7" :> "http://registry.npmjs.org/bower/-/bower-1.7.7.tgz")
  @@ ("2.0.0" :> "http://registry.npmjs.org/bower/-/bower-2.0.0.tgz")
  @@ ("10.0.0" :> "http://registry.npmjs.org/bower/-/bower-10.0.0.tgz")

KeySets == {K \in SUBSET KeyVersions : Cardinality(K) <= MaxKeys}

\* a per-version entry of a `versions` reply, with or without its field
ReleaseEntries(k) == {Obj("versions" :> Arr(VersionsOf[k])), Obj(NoProps)}

\* a per-version entry of a `dist.tarball` reply
TarballEntries(k) ==
  {Obj("dist.tarball" :> Str(TarballOf[k])), Obj("dist.tarball" :> Str("")), Obj(NoProps)}

ReleasesReplies ==
  {Arr(q) : q \in SeqsUpTo(ArrayVersions, MaxLen)}
  \cup UNION {{Obj(f) : f \in {g \in [K -> UNION {ReleaseEntries(k) : k \in K}] :
                                \A k \in K : g[k] \in ReleaseEntries(k)}} : K \in KeySets}

DirectTarballs == {Str("http://registry.npmjs.org/bower/-/bower-1.7.7.tgz"), Str("")}

NestedTarballs ==
  UNION {{f \in [K -> UNION {TarballEntries(k) : k \in K}] :
            \A k \in K : f[k] \in TarballEntries(k)} : K \in KeySets}

TarballReplies ==
  {Obj(f) : f \in NestedTarballs}
  \cup {Obj(("dist.tarball" :> d) @@ f) : d \in DirectTarballs, f \in NestedTarballs}

\* a few replies of each shape, for the runs with several calls in flight
SomeReleasesReplies ==
  { Arr(<<"1.1.0", "1.0.0">>),
    Obj(("2.0.0" :> Obj("versions" :> Arr(VersionsOf["2.0.0"])))
        @@ ("10.0.0" :> Obj("versions" :> Arr(VersionsOf["10.0.0"])))),
    Obj(NoProps) }

SomeTarballReplies ==
  { Obj("dist.tarball" :> Str(TarballOf["1.7.7"])),
    Obj(("1.7.7" :> Obj("dist.tarball" :> Str(TarballOf["1.7.7"])))
        @@ ("2.0.0" :> Obj("dist.tarball" :> Str(TarballOf["2.0.0"])))) }

Configs ==
  { NoProps,
    ("proxy" :> Str("http://proxy:8080")) @@ ("https-proxy" :> Str("https://proxy:8080")),
    "https-proxy" :> Str("https://proxy:8080") }

NoReply == [got |-> FALSE, err |-> Undef, data |-> Undef]
Reply(err, data) == [got |-> TRUE, err |-> err, data |-> data]

(***************************************************************************)
(* State after the modules are loaded: no call made, nothing on disk       *)
(***************************************************************************)
\* an absolute URL split at its slashes: scheme, empty, host, path segments
Urls ==
  { <<"http:", "", "registry.npmjs.org", "bower", "-", "bower-1.7.7.tgz">>,
    <<"http:", "", "registry.npmjs.org", "bower", "-", "bower-1.7.6.tgz">>,
    <<"http:", "", "registry.npmjs.org", "q.tgz">> }
\* directories, as paths split at their separators
ExistingDirs == { <<"", "tmp", "a">>, <<"", "tmp", "b">> }
MissingDirs == { <<"", "tmp", "missing">> }

Init ==
  /\ kind = [c \in Calls |-> "none"]
  /\ viewArgs = [c \in Calls |-> <<>>]
  /\ deferred = [c \in Calls |-> Pending]
  /\ promise = [c \in Calls |-> Pending]
  /\ loadCalls = [c \in Calls |-> 0]
  /\ viewLog = [c \in Calls |-> <<>>]
  /\ pendingLoad = {}
  /\ pendingView = {}
  /\ loadReply = [c \in Calls |-> NoReply]
  /\ viewReply = [c \in Calls |-> NoReply]
  /\ fpc = [f \in Fetches |-> "idle"]
  /\ furl = [f \in Fetches |-> <<>>]
  /\ fdst = [f \in Fetches |-> <<>>]
  /\ fpath = [f \in Fetches |-> <<>>]
  /\ files = [p \in {} |-> "partial"]

(***************************************************************************)
(* npm-utils.js: the calls and their callbacks                             *)
(***************************************************************************)
\* execViewCommand(args) up to its return: a new deferred, npm.load issued
execViewCommand(c, args) ==
  /\ viewArgs' = [viewArgs EXCEPT ![c] = args]
  /\ deferred' = [deferred EXCEPT ![DeferredOf(c)] = Pending]
  /\ loadCalls' = [loadCalls EXCEPT ![c] = @ + 1]
  /\ pendingLoad' = pendingLoad \cup {c}
  /\ UNCHANGED <<promise, viewLog, pendingView, loadReply, viewReply>>

\* releases(pkg): execViewCommand([pkg, 'versions']).then(...)
releases(c, pkg) ==
  /\ kind[c] = "none"
  /\ kind' = [kind EXCEPT ![c] = "releases"]
  /\ execViewCommand(c, <<<<pkg>>, "versions">>)
  /\ UNCHANGED fvars

\* tarball(pkg, version): execViewCommand([pkg + '@' + version, 'dist.tarball']).then(...)
tarball(c, pkg, version) ==
  /\ kind[c] = "none"
  /\ kind' = [kind EXCEPT ![c] = "tarball"]
  /\ execViewCommand(c, <<<<pkg, "@", version>>, "dist.tarball">>)
  /\ UNCHANGED fvars

\* proxy() up to its return: a new deferred, npm.load issued
proxy(c) ==
  /\ kind[c] = "none"
  /\ kind' = [kind EXCEPT ![c] = "proxy"]
  /\ deferred' = [deferred EXCEPT ![DeferredOf(c)] = Pending]
  /\ loadCalls' = [loadCalls EXCEPT ![c] = @ + 1]
  /\ pendingLoad' = pendingLoad \cup {c}
  /\ UNCHANGED <<viewArgs, promise, viewLog, pendingView, loadReply, viewReply>>
  /\ UNCHANGED fvars

\* npm.load calls back the function execViewCommand gave it
execViewLoaded(c, err) ==
  /\ c \in pendingLoad
  /\ kind[c] \in {"releases", "tarball"}
  /\ pendingLoad' = pendingLoad \ {c}
  /\ loadReply' = [loadReply EXCEPT ![c] = Reply(err, Undef)]
  /\ deferred' = [deferred EXCEPT ![DeferredOf(c)] =
                    IF Truthy(err) THEN Settle(@, Rejected(err)) ELSE @]
  /\ IF InvokesView(err)
     THEN /\ viewLog' = [viewLog EXCEPT ![c] = Append(@, <<viewArgs[c], TRUE>>)]
          /\ pendingView' = pendingView \cup {c}
     ELSE UNCHANGED <<viewLog, pendingView>>
  /\ UNCHANGED <<kind, viewArgs, promise, loadCalls, viewReply>>
  /\ UNCHANGED fvars

\* npm.commands.view calls back the function wrapCallback(deferred) made
viewDone(c, err, data) ==
  /\ c \in pendingView
  /\ pendingView' = pendingView \ {c}
  /\ viewReply' = [viewReply EXCEPT ![c] = Reply(err, data)]
  /\ deferred' = [deferred EXCEPT ![DeferredOf(c)] = Settle(@, wrapCallback(err, data))]
  /\ UNCHANGED <<kind, viewArgs, promise, loadCalls, viewLog, pendingLoad, loadReply>>
  /\ UNCHANGED fvars

\* npm.load calls back the function proxy gave it
proxyLoaded(c, err, data) ==
  /\ c \in pendingLoad
  /\ kind[c] = "proxy"
  /\ pendingLoad' = pendingLoad \ {c}
  /\ loadReply' = [loadReply EXCEPT ![c] = Reply(err, data)]
  /\ deferred' = [deferred EXCEPT ![DeferredOf(c)] =
                    IF Truthy(err) THEN Settle(@, Rejected(err))
                    ELSE Settle(@, Fulfilled(proxyValue(data)))]
  /\ UNCHANGED <<kind, viewArgs, promise, loadCalls, viewLog, pendingView, viewReply>>
  /\ UNCHANGED fvars

\* Q settles the promise the call returned, once its deferred is settled:
\* for releases/tarball through the handler given to then, for proxy the
\* deferred's own promise
settlePromise(c) ==
  /\ kind[c] # "none"
  /\ promise[c].state = "pending"
  /\ deferred[DeferredOf(c)].state # "pending"
  /\ promise' = [promise EXCEPT ![c] =
       CASE kind[c] = "releases" -> Then(deferred[DeferredOf(c)], releasesThen(deferred[DeferredOf(c)].value))
         [] kind[c] = "tarball" -> Then(deferred[DeferredOf(c)], tarballThen(deferred[DeferredOf(c)].value))
         [] OTHER -> deferred[DeferredOf(c)]]
  /\ UNCHANGED <<kind, viewArgs, deferred, loadCalls, viewLog, pendingLoad,
                 pendingView, loadReply, viewReply>>
  /\ UNCHANGED fvars

ViewRepliesOf(c, releasesReplies, tarballReplies) ==
  IF kind[c] = "releases" THEN releasesReplies ELSE tarballReplies

\* a callback of call c: npm calling back with one of the given replies,
\* or Q running the handlers of a settled promise
callback(c, releasesReplies, tarballReplies) ==
  \/ \E err \in LoadErrors \cup {Null} : execViewLoaded(c, err)
  \/ \E err \in LoadErrors : proxyLoaded(c, err, Undef)
  \/ \E cfg \in Configs : proxyLoaded(c, Null, Npm(cfg))
  \/ \E err \in ViewErrors : viewDone(c, err, Undef)
  \/ \E data \in ViewRepliesOf(c, releasesReplies, tarballReplies) :
       viewDone(c, Null, data)
  \/ settlePromise(c)

\* one call of releases or tarball, every reply shape
NormNext ==
  \/ \E pkg \in Packages : releases(1, pkg)
  \/ \E pkg \in Packages, version \in PackageVersions : tarball(1, pkg, version)
  \/ \E err \in LoadErrors \cup {Null} : execViewLoaded(1, err)
  \/ \E err \in ViewErrors : viewDone(1, err, Undef)
  \/ \E data \in ViewRepliesOf(1, ReleasesReplies, TarballReplies) : viewDone(1, Null, data)
  \/ settlePromise(1)

NormSpec == Init /\ [][NormNext]_vars

\* the collaborator calls back and Q runs the handlers of a settled promise:
\* while a callback of the call is due, it is delivered
NormFairness == WF_vars(callback(1, ReleasesReplies, TarballReplies))

FairNormSpec == Init /\ [][NormNext]_vars /\ NormFairness

\* several calls of proxy, releases and tarball in flight
CallsNext ==
  \E c \in Calls :
    \/ \E pkg \in Packages : releases(c, pkg)
    \/ \E pkg \in Packages, version \in PackageVersions : tarball(c, pkg, version)
    \/ proxy(c)
    \/ \E err \in LoadErrors \cup {Null} : execViewLoaded(c, err)
    \/ \E err \in LoadErrors : proxyLoaded(c, err, Undef)
    \/ \E cfg \in Configs : proxyLoaded(c, Null, Npm(cfg))
    \/ \E err \in ViewErrors : viewDone(c, err, Undef)
    \/ \E data \in ViewRepliesOf(c, SomeReleasesReplies, SomeTarballReplies) :
         viewDone(c, Null, data)
    \/ settlePromise(c)

CallsSpec == Init /\ [][CallsNext]_vars

(***************************************************************************)
(* download.js: fetch(url, destinationDir)                                 *)
(***************************************************************************)
HttpStatuses == {200, 404}

fileNameFirst(url) == url[4]

\* the file name: the URL's final path segment
fileName(url) == url[Len(url)]

\* the path of the file inside the destination directory
target(url, dst) == Append(dst, fileName(url))

NoFile == "none"
fileState(path) == IF path \in DOMAIN files THEN files[path] ELSE NoFile

\* fetch(url, dst) up to its return: the request is sent
fetch(f, url, dst) ==
  /\ fpc[f] = "idle"
  /\ fpc' = [fpc EXCEPT ![f] = "requesting"]
  /\ furl' = [furl EXCEPT ![f] = url]
  /\ fdst' = [fdst EXCEPT ![f] = dst]
  /\ UNCHANGED <<fpath, files>>
  /\ UNCHANGED qvars

\* the request fails before any response
networkFailure(f) ==
  /\ fpc[f] = "requesting"
  /\ fpc' = [fpc EXCEPT ![f] = "rejected"]
  /\ UNCHANGED <<furl, fdst, fpath, files>>
  /\ UNCHANGED qvars

\* the response arrives: a non-success status or a destination that cannot
\* be opened fails the fetch, otherwise the body is streamed to the file
response(f, status) ==
  /\ fpc[f] = "requesting"
  /\ IF status # 200 \/ fdst[f] \notin ExistingDirs
     THEN /\ fpc' = [fpc EXCEPT ![f] = "rejected"]
          /\ UNCHANGED files
     ELSE /\ fpc' = [fpc EXCEPT ![f] = "writing"]
          /\ files' = [p \in DOMAIN files \cup {target(furl[f], fdst[f])} |->
                         IF p = target(furl[f], fdst[f]) THEN "partial" ELSE files[p]]
  /\ UNCHANGED <<furl, fdst, fpath>>
  /\ UNCHANGED qvars

\* the write fails midway
writeFailure(f) ==
  /\ fpc[f] = "writing"
  /\ fpc' = [fpc EXCEPT ![f] = "rejected"]
  /\ UNCHANGED <<furl, fdst, fpath, files>>
  /\ UNCHANGED qvars

\* the write completes: the promise is resolved with the path
writeFinished(f) ==
  /\ fpc[f] = "writing"
  /\ fpc' = [fpc EXCEPT ![f] = "resolved"]
  /\ fpath' = [fpath EXCEPT ![f] = target(furl[f], fdst[f])]
  /\ files' = [files EXCEPT ![target(furl[f], fdst[f])] = "complete"]
  /\ UNCHANGED <<furl, fdst>>
  /\ UNCHANGED qvars

FetchNext ==
  \E f \in Fetches :
    \/ \E url \in Urls, dst \in ExistingDirs \cup MissingDirs : fetch(f, url, dst)
    \/ networkFailure(f)
    \/ \E status \in HttpStatuses : response(f, status)
    \/ writeFailure(f)
    \/ writeFinished(f)

FetchSpec == Init /\ [][FetchNext]_vars

(***************************************************************************)
(* Properties                                                              *)
(***************************************************************************)
Settled(c) == promise[c].state # "pending"

\* the view command replied to call c without an error
ViewReplied(c) == viewReply[c].got /\ ~Truthy(viewReply[c].err)

\* k is last among the keys S in the order of the strings' code units
IsLastKey(k, S) == k \in S /\ \A j \in S : j = k \/ StrLess(j, k)

\* the field `name` of entry e, undefined when the entry has no such field
FieldOf(e, name) == IF name \in DOMAIN e.v THEN e.v[name] ELSE Undef

PerVersionKeyed(data) ==
  data.t = "object" /\ DOMAIN data.v # {} /\ DOMAIN data.v \subseteq KeyVersions

\* C1: for a per-version-keyed reply, releases resolves with the `versions`
\* field of the entry whose key is last in string order (with keys 2.0.0 and
\* 10.0.0 that is the entry 2.0.0), and with no other entry's field.
C1_ReleasesLastKey ==
  \A c \in Calls :
    (kind[c] = "releases" /\ ViewReplied(c) /\ PerVersionKeyed(viewReply[c].data)
       /\ Settled(c)) =>
      LET data == viewReply[c].data.v
      IN /\ \E k \in DOMAIN data :
              /\ IsLastKey(k, DOMAIN data)
              /\ promise[c] = Fulfilled(FieldOf(data[k], "versions"))
         /\ ("2.0.0" \in DOMAIN data /\ "versions" \in DOMAIN data["2.0.0"].v) =>
              promise[c] = Fulfilled(Arr(<<"1.0.0", "2.0.0">>))

C1_Witness ==
  \E c \in Calls :
    /\ kind[c] = "releases" /\ ViewReplied(c)
    /\ viewReply[c].data.t = "object"
    /\ DOMAIN viewReply[c].data.v = {"2.0.0", "10.0.0"}
    /\ "versions" \in DOMAIN viewReply[c].data.v["10.0.0"].v
    /\ promise[c] = Fulfilled(Arr(<<"1.0.0", "2.0.0">>))

\* C2: for a reply that is already an array of versions (the empty array
\* included), releases resolves with that array: same elements, same order.
C2_ReleasesArrayUnchanged ==
  \A c \in Calls :
    (kind[c] = "releases" /\ ViewReplied(c) /\ IsArray(viewReply[c].data)
       /\ Settled(c)) =>
      /\ promise[c].state = "fulfilled"
      /\ IsArray(promise[c].value)
      /\ Len(promise[c].value.v) = Len(viewReply[c].data.v)
      /\ \A i \in 1..Len(viewReply[c].data.v) :
           promise[c].value.v[i] = viewReply[c].data.v[i]

C2_Witness ==
  \E c \in Calls :
    /\ kind[c] = "releases" /\ ViewReplied(c)
    /\ viewReply[c].data = Arr(<<"1.1.0", "1.0.0">>)
    /\ promise[c] = Fulfilled(Arr(<<"1.1.0", "1.0.0">>))

HasDirectTarball(data) == data.t = "object" /\ "dist.tarball" \in DOMAIN data.v

\* C3: for a reply that directly contains a `dist.tarball` key, tarball
\* resolves with exactly the value of that key, whatever the value (an empty
\* string included), and not through the nested per-version path.
C3_TarballDirect ==
  \A c \in Calls :
    (kind[c] = "tarball" /\ ViewReplied(c) /\ HasDirectTarball(viewReply[c].data)
       /\ Settled(c)) =>
      promise[c] = Fulfilled(viewReply[c].data.v["dist.tarball"])

\* C4: for a reply without a direct `dist.tarball` key, keyed by versions
\* each holding a nested `dist.tarball`, tarball resolves with the
\* `dist.tarball` of the entry whose key is last in string order.
C4_TarballNested ==
  \A c \in Calls :
    (kind[c] = "tarball" /\ ViewReplied(c) /\ PerVersionKeyed(viewReply[c].data)
       /\ (\A k \in DOMAIN viewReply[c].data.v :
             "dist.tarball" \in DOMAIN viewReply[c].data.v[k].v)
       /\ Settled(c)) =>
      LET data == viewReply[c].data.v
      IN \E k \in DOMAIN data :
           /\ IsLastKey(k, DOMAIN data)
           /\ promise[c] = Fulfilled(data[k].v["dist.tarball"])

C4_Witness ==
  \E c \in Calls :
    /\ kind[c] = "tarball" /\ ViewReplied(c)
    /\ viewReply[c].data.t = "object"
    /\ DOMAIN viewReply[c].data.v = {"2.0.0", "10.0.0"}
    /\ viewReply[c].data.v["10.0.0"] =
         Obj("dist.tarball" :> Str("http://registry.npmjs.org/bower/-/bower-10.0.0.tgz"))
    /\ promise[c] = Fulfilled(Str("http://registry.npmjs.org/bower/-/bower-2.0.0.tgz"))

\* the error the collaborator reported to call c, if any
ReportedErrors(c) ==
  {r.err : r \in {r \in {loadReply[c], viewReply[c]} : r.got /\ Truthy(r.err)}}

\* C5: when load or view reports an error to releases or tarball, the
\* returned promise is never resolved; the call is rejected with exactly
\* the reported error.
C5_ErrorPropagated ==
  \A c \in Calls :
    kind[c] \in {"releases", "tarball"} =>
      \A e \in ReportedErrors(c) :
        /\ deferred[c] = Rejected(e)
        /\ promise[c] \in {Pending, Rejected(e)}

C5_Witness ==
  \E c \in Calls :
    /\ kind[c] = "tarball"
    /\ viewReply[c].got /\ viewReply[c].err = Error("E404")
    /\ promise[c] = Rejected(Error("E404"))

\* C6: no partial success: releases resolves with a version sequence and
\* tarball with a URL string, or the call fails as a whole; a reply of
\* neither shape never resolves tarball with a missing value.
C6_NoPartialSuccess ==
  \A c \in Calls :
    promise[c].state = "fulfilled" =>
      /\ kind[c] = "releases" => promise[c].value.t = "array"
      /\ kind[c] = "tarball" => promise[c].value.t = "string"

\* C7: proxy resolves, when load succeeds, with exactly the keys `proxy`
\* and `https-proxy`, each the value of that setting in the loaded
\* configuration (undefined when not set); when load fails it rejects with
\* the loader's error unchanged.
C7_Proxy ==
  \A c \in Calls :
    (kind[c] = "proxy" /\ loadReply[c].got) =>
      /\ promise[c] \in {Pending, deferred[c]}
      /\ IF Truthy(loadReply[c].err)
         THEN deferred[c] = Rejected(loadReply[c].err)
         ELSE /\ deferred[c].state = "fulfilled"
              /\ deferred[c].value.t = "object"
              /\ DOMAIN deferred[c].value.v = {"proxy", "https-proxy"}
              /\ \A k \in {"proxy", "https-proxy"} :
                   deferred[c].value.v[k] =
                     IF k \in DOMAIN loadReply[c].data.config
                     THEN loadReply[c].data.config[k]
                     ELSE Undef

C7_Witness ==
  \E c \in Calls :
    /\ kind[c] = "proxy" /\ loadReply[c].got /\ ~Truthy(loadReply[c].err)
    /\ DOMAIN loadReply[c].data.config = {"https-proxy"}
    /\ promise[c] = Fulfilled(Obj(("proxy" :> Undef)
                        @@ ("https-proxy" :> Str("https://proxy:8080"))))

\* the path of a file inside directory dir: dir followed by one name
Inside(path, dir) == Len(path) = Len(dir) + 1 /\ SubSeq(path, 1, Len(dir)) = dir

C8_PathAndFile ==
  \A f \in Fetches :
    fpc[f] = "resolved" =>
      /\ fdst[f] \in ExistingDirs
      /\ fpath[f][Len(fpath[f])] = furl[f][Len(furl[f])]
      /\ Inside(fpath[f], fdst[f])
      /\ fpath[f] \in DOMAIN files

C8_ResolvedAfterWrite ==
  \A f \in Fetches :
    (fpc[f] # "resolved" /\ fpc'[f] = "resolved") =>
      /\ fpc[f] = "writing"
      /\ fpath'[f] \in DOMAIN files'
      /\ files'[fpath'[f]] = "complete"

\* C8: a successful fetch into an existing directory resolves with a path
\* whose final segment is the URL's final segment, inside that directory,
\* and only once the write has completed, so the file exists on resolution.
C8_Fetch == [](C8_PathAndFile) /\ [][C8_ResolvedAfterWrite]_vars

C8_Witness ==
  \E f \in Fetches :
    /\ fpc[f] = "resolved"
    /\ furl[f] = <<"http:", "", "registry.npmjs.org", "bower", "-", "bower-1.7.7.tgz">>
    /\ fpath[f] = <<"", "tmp", "a", "bower-1.7.7.tgz">>
    /\ fileState(fpath[f]) = "complete"

C9_Counts ==
  \A c \in Calls :
    /\ loadCalls[c] = IF kind[c] = "none" THEN 0 ELSE 1
    /\ Len(viewLog[c]) <= 1
    /\ kind[c] = "proxy" => viewLog[c] = <<>>
    /\ viewLog[c] # <<>> => loadReply[c].got /\ ~Truthy(loadReply[c].err)
    /\ (loadReply[c].got /\ Truthy(loadReply[c].err)) =>
         viewLog[c] = <<>> /\ c \notin pendingView
    /\ c \in pendingLoad => ~loadReply[c].got /\ viewLog[c] = <<>>

C9_SettledOnce ==
  \A c \in Calls : Settled(c) => promise'[c] = promise[c]

\* C9: in one call of releases or tarball, load is invoked exactly once,
\* view at most once and only after load completed without error, no step
\* is retried, and the returned promise is settled at most once, and
\* eventually when the collaborator calls back.
C9_OneShot ==
  /\ [](C9_Counts)
  /\ [][C9_SettledOnce]_vars
  /\ \A c \in Calls : (kind[c] \in {"releases", "tarball"}) ~> Settled(c)

C9_Witness ==
  \E c \in Calls :
    /\ kind[c] = "releases"
    /\ loadCalls[c] = 1 /\ Len(viewLog[c]) = 1
    /\ viewReply[c].got
    /\ promise[c].state = "fulfilled"

\* what call c's own callbacks ask its deferred to be settled with
OwnSettlement(c) ==
  IF Truthy(loadReply[c].err) THEN Rejected(loadReply[c].err)
  ELSE IF kind[c] = "proxy" THEN Fulfilled(proxyValue(loadReply[c].data))
  ELSE IF Truthy(viewReply[c].err) THEN Rejected(viewReply[c].err)
  ELSE Fulfilled(viewReply[c].data)

\* the outcome of call c had it run alone: the normalization of its own
\* reply, or its own error
OwnOutcome(c) ==
  CASE kind[c] = "releases" -> Then(OwnSettlement(c), releasesThen(OwnSettlement(c).value))
    [] kind[c] = "tarball" -> Then(OwnSettlement(c), tarballThen(OwnSettlement(c).value))
    [] OTHER -> OwnSettlement(c)

\* the callbacks of call c's own load/view invocations have all arrived
OwnCallbacksDone(c) ==
  /\ loadReply[c].got
  /\ (kind[c] # "proxy" /\ ~Truthy(loadReply[c].err)) => viewReply[c].got

\* C10: with several calls in flight, each call's promise is settled only
\* by the callbacks of its own load/view invocation, and its outcome is the
\* one it would have alone, whatever the order of the other calls' callbacks.
C10_Independent ==
  \A c \in Calls :
    /\ Settled(c) => OwnCallbacksDone(c) /\ promise[c] = OwnOutcome(c)
    /\ deferred[c].state # "pending" =>
         kind[c] # "none" /\ OwnCallbacksDone(c) /\ deferred[c] = OwnSettlement(c)

C10_Witness ==
  \E c, d \in Calls :
    /\ c < d
    /\ kind[c] = "tarball" /\ kind[d] = "releases"
    /\ promise[d] = Fulfilled(Arr(<<"1.1.0", "1.0.0">>))
    /\ ~viewReply[c].got /\ c \in pendingView

====
